---- MODULE Spec2Model ----
(***************************************************************************)
(* Model of earley.py: Grammar construction with the nullable fixpoint     *)
(* (Grammar.__init__, get_nullable_rules), the Earley chart sweep          *)
(* (earley) with the reduction-path search (get_topmost), and the query    *)
(* (completed_items, is_valid_parse).                                      *)
(*                                                                         *)
(* Indices i, j, Item.dot and Item.start are 0-based as in the source;     *)
(* TLA+ sequences are 1-based, so every subscript adds one.                *)
(***************************************************************************)
EXTENDS Naturals, Integers, Sequences, FiniteSets, TLC

\* Longest token sequence handed to earley.
MaxLen == 5

----------------------------------------------------------------------------
(* Rule, Item                                                              *)

\* Rule.__init__: the slots (symbol, seq); Rule.__eq__ is equality of both.
Rule(symbol, seq) == [symbol |-> symbol, seq |-> seq]

\* Rule.__len__
RuleLen(rule) == Len(rule.seq)

\* Rule.__getitem__ (0-based index)
RuleAt(rule, index) == rule.seq[index + 1]

\* Item.__init__: the slots (rule, dot, start); Item.__eq__ is equality of
\* the three.
Item(rule, dot, start) == [rule |-> rule, dot |-> dot, start |-> start]

\* Item.advance
advance(x) == Item(x.rule, x.dot + 1, x.start)

\* "x in list" / "x not in list" over a Python list, by __eq__.
Contains(list, x) == \E k \in 1..Len(list) : list[k] = x

----------------------------------------------------------------------------
(* The grammars handed to Grammar(terminals, nonterminals).                *)
(* terminals: terminal symbol -> the set of tokens its predicate accepts.  *)
(* nonterminals: an insertion-ordered dict, keys in declaration order and  *)
(* the list of rules of each key.                                          *)

Dict(keys, rules) == [keys |-> keys, rules |-> rules]

TermA  == ("a" :> {"a"})
TermAB == ("a" :> {"a"}) @@ ("b" :> {"b"})

\* test_nullable grammar1 / test_right_recursion_optimization:  A -> a A | (empty)
Grammar1 ==
  [terminals |-> TermA,
   nonterminals |-> Dict(<<"A">>,
      ("A" :> <<Rule("A", <<"a", "A">>), Rule("A", <<>>)>>))]

\* test_nullable grammar2:  A -> a A | b
Grammar2 ==
  [terminals |-> TermAB,
   nonterminals |-> Dict(<<"A">>,
      ("A" :> <<Rule("A", <<"a", "A">>), Rule("A", <<"b">>)>>))]

\* test_nullable grammar3:  A -> a B | (empty) ; B -> b A
Grammar3 ==
  [terminals |-> TermAB,
   nonterminals |-> Dict(<<"A", "B">>,
      ("A" :> <<Rule("A", <<"a", "B">>), Rule("A", <<>>)>>) @@
      ("B" :> <<Rule("B", <<"b", "A">>)>>))]

\* test_simple_arith cut down to two levels, keeping the left recursion and
\* the token classes:  Sum -> Sum [+-] Number | Number ;
\* Number -> [0-9] Number | [0-9]
Arith ==
  [terminals |-> ("[+-]" :> {"+", "-"}) @@ ("[0-9]" :> {"1"}),
   nonterminals |-> Dict(<<"Sum", "Number">>,
      ("Sum" :> <<Rule("Sum", <<"Sum", "[+-]", "Number">>),
                  Rule("Sum", <<"Number">>)>>) @@
      ("Number" :> <<Rule("Number", <<"[0-9]", "Number">>),
                     Rule("Number", <<"[0-9]">>)>>))]

\* S -> A ; A -> a
UnitChain ==
  [terminals |-> TermA,
   nonterminals |-> Dict(<<"S", "A">>,
      ("S" :> <<Rule("S", <<"A">>)>>) @@
      ("A" :> <<Rule("A", <<"a">>)>>))]

\* S -> A ; A -> a B ; B -> b
Nested ==
  [terminals |-> TermAB,
   nonterminals |-> Dict(<<"S", "A", "B">>,
      ("S" :> <<Rule("S", <<"A">>)>>) @@
      ("A" :> <<Rule("A", <<"a", "B">>)>>) @@
      ("B" :> <<Rule("B", <<"b">>)>>))]

\* S -> W b | A ; W -> S ; A -> a   (the start symbol inside a reduction path)
StartInPath ==
  [terminals |-> TermAB,
   nonterminals |-> Dict(<<"S", "W", "A">>,
      ("S" :> <<Rule("S", <<"W", "b">>), Rule("S", <<"A">>)>>) @@
      ("W" :> <<Rule("W", <<"S">>)>>) @@
      ("A" :> <<Rule("A", <<"a">>)>>))]

\* A -> B ; B -> A | a   (cyclic)
Cyclic ==
  [terminals |-> TermA,
   nonterminals |-> Dict(<<"A", "B">>,
      ("A" :> <<Rule("A", <<"B">>)>>) @@
      ("B" :> <<Rule("B", <<"A">>), Rule("B", <<"a">>)>>))]

\* S -> a | a   (the same rule listed twice)
TwiceListed ==
  [terminals |-> TermA,
   nonterminals |-> Dict(<<"S">>,
      ("S" :> <<Rule("S", <<"a">>), Rule("S", <<"a">>)>>))]

\* S -> a x | a   (x is in neither map)
Undefined ==
  [terminals |-> TermA,
   nonterminals |-> Dict(<<"S">>,
      ("S" :> <<Rule("S", <<"a", "x">>), Rule("S", <<"a">>)>>))]

\* S -> a b ; b -> (empty)   (b is in both maps)
Both ==
  [terminals |-> TermAB,
   nonterminals |-> Dict(<<"S", "b">>,
      ("S" :> <<Rule("S", <<"a", "b">>)>>) @@
      ("b" :> <<Rule("b", <<>>)>>))]

\* S -> A B ; A -> B ; B -> b | (empty)   (nullability propagates B, A, S)
NullChain ==
  [terminals |-> TermAB,
   nonterminals |-> Dict(<<"S", "A", "B">>,
      ("S" :> <<Rule("S", <<"A", "B">>)>>) @@
      ("A" :> <<Rule("A", <<"B">>)>>) @@
      ("B" :> <<Rule("B", <<"b">>), Rule("B", <<>>)>>))]

\* S -> A A ; A -> a | (empty)   (ambiguous)
Ambiguous ==
  [terminals |-> TermA,
   nonterminals |-> Dict(<<"S", "A">>,
      ("S" :> <<Rule("S", <<"A", "A">>)>>) @@
      ("A" :> <<Rule("A", <<"a">>), Rule("A", <<>>)>>))]

\* a -> (empty), with a also a terminal   (the first key is in both maps)
BothStart ==
  [terminals |-> TermA,
   nonterminals |-> Dict(<<"a">>, ("a" :> <<Rule("a", <<>>)>>))]

Grammars ==
  {Grammar1, Grammar2, Grammar3, Arith, UnitChain, Nested, StartInPath,
   Cyclic, TwiceListed, Undefined, Both, BothStart, NullChain, Ambiguous}

\* The tokens a caller may pass: every token some terminal accepts and, when
\* that leaves a single token, one more that no terminal accepts.
Accepted(t) == UNION {t[x] : x \in DOMAIN t}
Alphabet(t) == IF Cardinality(Accepted(t)) < 2 THEN Accepted(t) \cup {"b"}
               ELSE Accepted(t)

Strings(alphabet) == UNION {[1..n -> alphabet] : n \in 0..MaxLen}

----------------------------------------------------------------------------
VARIABLES
  terminals,     \* Grammar.terminals
  nonterminals,  \* Grammar.nonterminals
  nullable,      \* Grammar.nullable
  nss,           \* get_nullable_rules: the set under construction
  size,          \* get_nullable_rules: len(nss) at the start of the pass
  visited,       \* update_nss: the nonterminals this pass has visited
  string,        \* earley: the token sequence
  statesets,     \* earley: the chart
  i,             \* earley: index of the state-set being swept
  j,             \* earley: index of the item being processed
  item,          \* get_topmost: the candidate of the reduction-path walk
  mode,          \* "compact": earley as written; "generic": get_topmost
                 \* replaced by the identity
  saved,         \* the query results of the compact run, kept for comparison
  pc

vars == <<terminals, nonterminals, nullable, nss, size, visited, string,
          statesets, i, j, item, mode, saved, pc>>

grammarVars == <<terminals, nonterminals, nullable>>
nullVars    == <<nss, size, visited>>

NoItem  == Item(Rule("", <<>>), 0, 0)
NoSaved == [valid |-> FALSE, count |-> 0]

KeySet == {nonterminals.keys[k] : k \in 1..Len(nonterminals.keys)}

\* Line 106: the first key of the dict is the start symbol.
StartSymbol == nonterminals.keys[1]

\* Grammar.__contains__ is not used by earley; the two membership tests are.
InTerminals(symbol)    == symbol \in DOMAIN terminals
InNonterminals(symbol) == symbol \in KeySet

----------------------------------------------------------------------------
(* Grammar.__init__ and get_nullable_rules                                 *)

\* is_nullable with any() in place of all(): an empty rule is not nullable.
is_nullable_any(rule, set) ==
  \E k \in 1..RuleLen(rule) : RuleAt(rule, k - 1) \in set

\* is_nullable(rule): all(x in nss for x in rule)
is_nullable(rule, set) == \A k \in 1..RuleLen(rule) : RuleAt(rule, k - 1) \in set

\* any(map(is_nullable, rules))
AnyNullable(rules, set) == \E k \in 1..Len(rules) : is_nullable(rules[k], set)

\* Grammar.__init__ stores both maps and starts get_nullable_rules with an
\* empty nss; nothing is validated.
Init ==
  /\ \E g \in Grammars :
       /\ terminals = g.terminals
       /\ nonterminals = g.nonterminals
  /\ nullable = {}
  /\ nss = {}
  /\ size = 0
  /\ visited = {}
  /\ string = <<>>
  /\ statesets = <<>>
  /\ i = 0
  /\ j = 0
  /\ item = NoItem
  /\ mode = "compact"
  /\ saved = NoSaved
  /\ pc = "nullable"

\* One iteration of the for loop of update_nss.  The dict is visited in its
\* declaration order; every declaration order is covered by letting the pass
\* take the unvisited nonterminals in any order.
UpdateNss ==
  /\ pc = "nullable"
  /\ \E s \in KeySet \ visited :
       /\ nss' = IF AnyNullable(nonterminals.rules[s], nss)
                 THEN nss \cup {s} ELSE nss
       /\ visited' = visited \cup {s}
  /\ UNCHANGED <<grammarVars, size, string, statesets, i, j, item, mode,
                 saved, pc>>

\* End of a pass that added something: the while loop goes round again.
NextPass ==
  /\ pc = "nullable"
  /\ visited = KeySet
  /\ size # Cardinality(nss)
  /\ size' = Cardinality(nss)
  /\ visited' = {}
  /\ UNCHANGED <<grammarVars, nss, string, statesets, i, j, item, mode,
                 saved, pc>>

\* End of a pass that added nothing: break, return nss, and __init__ stores
\* it in self.nullable.
Constructed ==
  /\ pc = "nullable"
  /\ visited = KeySet
  /\ size = Cardinality(nss)
  /\ nullable' = nss
  /\ nss' = {}
  /\ size' = 0
  /\ visited' = {}
  /\ pc' = "constructed"
  /\ UNCHANGED <<terminals, nonterminals, string, statesets, i, j, item,
                 mode, saved>>

----------------------------------------------------------------------------
(* earley, get_topmost                                                     *)

\* Grammar.__getitem__ looks in terminals first: for a symbol that is in both
\* maps it returns the terminal's predicate, not the list of rules.
GetItemIsRules(symbol) == ~InTerminals(symbol)

\* A scan that does not consult the terminal's predicate.
AcceptsAny(symbol, token) == TRUE

\* grammar.terminals[symbol](token)
Accepts(symbol, token) == token \in terminals[symbol]

\* The item at statesets[i][j].
Cur == statesets[i + 1][j + 1]

\* The condition of lines 91 and 128: x has symbol right after its dot.
WaitsFor(x, symbol) ==
  /\ x.dot < RuleLen(x.rule)
  /\ RuleAt(x.rule, x.dot) = symbol

\* Line 95 off by one: the walk never finds a match to follow.
PenultimateOffByOne(m) == m.dot = RuleLen(m.rule)

\* Line 95: the match has its dot before the last symbol of its rule.
Penultimate(m) == m.dot = RuleLen(m.rule) - 1

\* The positions of stateset the for loop of get_topmost matches.
Waiting(stateset, symbol) ==
  {m \in 1..Len(stateset) : WaitsFor(stateset[m], symbol)}

\* One round of the while loop of get_topmost on candidate x.  The for loop
\* returns x at a second match; after the loop the walk goes on only when
\* the single match is penultimate.
WalkGoesOn(ss, x) ==
  LET stateset == ss[x.start + 1]
      W == Waiting(stateset, x.rule.symbol)
  IN  /\ Cardinality(W) = 1
      /\ Penultimate(stateset[CHOOSE m \in W : TRUE])

WalkMatch(ss, x) ==
  LET stateset == ss[x.start + 1]
  IN  stateset[CHOOSE m \in Waiting(stateset, x.rule.symbol) : TRUE]

\* "if x not in statesets[k]: statesets[k].append(x)"
AddItem(ss, k, x) ==
  IF Contains(ss[k + 1], x) THEN ss
  ELSE [ss EXCEPT ![k + 1] = Append(@, x)]

\* Lines 127-131: the for loop over statesets[src], appending to
\* statesets[dst]; when src = dst the loop also reaches the items it appends.
RECURSIVE CompleteLoop(_, _, _, _, _)
CompleteLoop(ss, src, dst, k, symbol) ==
  IF k > Len(ss[src + 1]) THEN ss
  ELSE LET x == ss[src + 1][k]
       IN  IF WaitsFor(x, symbol)
           THEN CompleteLoop(AddItem(ss, dst, advance(x)), src, dst, k + 1, symbol)
           ELSE CompleteLoop(ss, src, dst, k + 1, symbol)

\* Lines 123-131, given what get_topmost returned for the item x of
\* state-set n.
Completion(ss, n, x, topmost) ==
  IF topmost # x
  THEN AddItem(ss, n, topmost)
  ELSE CompleteLoop(ss, x.start, n, 1, x.rule.symbol)

\* Lines 146-149: one new item per rule of the predicted symbol.
RECURSIVE PredictLoop(_, _, _, _)
PredictLoop(ss, n, rules, k) ==
  IF k > Len(rules) THEN ss
  ELSE PredictLoop(AddItem(ss, n, Item(rules[k], 0, n)), n, rules, k + 1)

\* Lines 145-155
Prediction(ss, n, x) ==
  LET symbol == RuleAt(x.rule, x.dot)
      predicted == PredictLoop(ss, n, nonterminals.rules[symbol], 1)
  IN  IF symbol \in nullable
      THEN AddItem(predicted, n, advance(x))
      ELSE predicted

\* Lines 135-141 without the test of line 139: every successful scan appends
\* a state-set.
ScanningAlwaysGrows(ss, n, x) ==
  IF Accepts(RuleAt(x.rule, x.dot), string[n + 1])
  THEN [Append(ss, <<>>) EXCEPT ![n + 2] = Append(@, advance(x))]
  ELSE ss

\* Lines 135-141
Scanning(ss, n, x) ==
  IF Accepts(RuleAt(x.rule, x.dot), string[n + 1])
  THEN LET grown == IF n = Len(ss) - 1 THEN Append(ss, <<>>) ELSE ss
       IN  [grown EXCEPT ![n + 2] = Append(@, advance(x))]
  ELSE ss

\* Lines 104-108: state-set 0 holds one item per rule of the first key.
Seed ==
  LET rules == nonterminals.rules[StartSymbol]
  IN  << [k \in 1..Len(rules) |-> Item(rules[k], 0, 0)] >>

\* earley(grammar, string) up to the first test of the outer while.  When the
\* first key is also a terminal, grammar[symbol] is a predicate and the for
\* loop of line 107 raises TypeError.
EarleyCall ==
  /\ pc = "constructed"
  /\ \E s \in Strings(Alphabet(terminals)) : string' = s
  /\ IF GetItemIsRules(StartSymbol)
     THEN /\ statesets' = Seed
          /\ pc' = "sweep"
     ELSE /\ statesets' = << <<>> >>
          /\ pc' = "raised"
  /\ i' = 0
  /\ j' = 0
  /\ UNCHANGED <<grammarVars, nullVars, item, mode, saved>>

InSweep ==
  /\ pc = "sweep"
  /\ i < Len(statesets)
  /\ j < Len(statesets[i + 1])

IsComplete(x) == x.dot = RuleLen(x.rule)
IsScan(x)     == /\ ~IsComplete(x)
                 /\ InTerminals(RuleAt(x.rule, x.dot))
                 /\ i < Len(string)
IsPredict(x)  == /\ ~IsComplete(x)
                 /\ ~IsScan(x)
                 /\ InNonterminals(RuleAt(x.rule, x.dot))

\* Line 122: the call of get_topmost(statesets, item).
Complete ==
  /\ InSweep
  /\ mode = "compact"
  /\ IsComplete(Cur)
  /\ item' = Cur
  /\ pc' = "get_topmost"
  /\ UNCHANGED <<grammarVars, nullVars, string, statesets, i, j, mode, saved>>

\* Lines 98-99: item = Item.advance(match), and round the while loop again.
TopmostStep ==
  /\ pc = "get_topmost"
  /\ WalkGoesOn(statesets, item)
  /\ item' = advance(WalkMatch(statesets, item))
  /\ UNCHANGED <<grammarVars, nullVars, string, statesets, i, j, mode, saved,
                 pc>>

\* Lines 93 and 101: get_topmost returns; lines 123-131 and 157 follow.
TopmostReturn ==
  /\ pc = "get_topmost"
  /\ ~WalkGoesOn(statesets, item)
  /\ statesets' = Completion(statesets, i, Cur, item)
  /\ j' = j + 1
  /\ item' = NoItem
  /\ pc' = "sweep"
  /\ UNCHANGED <<grammarVars, nullVars, string, i, mode, saved>>

\* Lines 133-141 and 157
Scan ==
  /\ InSweep
  /\ IsScan(Cur)
  /\ statesets' = Scanning(statesets, i, Cur)
  /\ j' = j + 1
  /\ UNCHANGED <<grammarVars, nullVars, string, i, item, mode, saved, pc>>

\* Lines 143-155 and 157
Predict ==
  /\ InSweep
  /\ IsPredict(Cur)
  /\ GetItemIsRules(RuleAt(Cur.rule, Cur.dot))
  /\ statesets' = Prediction(statesets, i, Cur)
  /\ j' = j + 1
  /\ UNCHANGED <<grammarVars, nullVars, string, i, item, mode, saved, pc>>

\* Line 146 for a symbol that is in both maps, met at the end of the input:
\* grammar[symbol] is the terminal's predicate and iterating it raises
\* TypeError.
PredictRaises ==
  /\ InSweep
  /\ IsPredict(Cur)
  /\ ~GetItemIsRules(RuleAt(Cur.rule, Cur.dot))
  /\ pc' = "raised"
  /\ UNCHANGED <<grammarVars, nullVars, string, statesets, i, j, item, mode,
                 saved>>

\* No branch of the if/elif chain applies (a terminal after the dot at the
\* end of the input, or a symbol in neither map): only line 157.
NoBranch ==
  /\ InSweep
  /\ ~IsComplete(Cur)
  /\ ~IsScan(Cur)
  /\ ~IsPredict(Cur)
  /\ j' = j + 1
  /\ UNCHANGED <<grammarVars, nullVars, string, statesets, i, item, mode,
                 saved, pc>>

\* Line 115 fails: line 158, and the outer while tests the next state-set.
NextStateSet ==
  /\ pc = "sweep"
  /\ i < Len(statesets)
  /\ j >= Len(statesets[i + 1])
  /\ i' = i + 1
  /\ j' = 0
  /\ UNCHANGED <<grammarVars, nullVars, string, statesets, item, mode, saved,
                 pc>>

\* Line 111 fails: return statesets.
Return ==
  /\ pc = "sweep"
  /\ i >= Len(statesets)
  /\ pc' = "done"
  /\ UNCHANGED <<grammarVars, nullVars, string, statesets, i, j, item, mode,
                 saved>>

----------------------------------------------------------------------------
(* Query layer                                                             *)

\* s[-1]
Last(s) == s[Len(s)]

\* completed_items(stateset): the positions of the last state-set it yields.
completed_items(ss) ==
  {k \in 1..Len(Last(ss)) :
     /\ Last(ss)[k].dot = RuleLen(Last(ss)[k].rule)
     /\ Last(ss)[k].start = 0}

\* is_valid_parse, on the chart earley returned.
is_valid_parse(ss, tokens) ==
  /\ Len(ss) = Len(tokens) + 1
  /\ Cardinality(completed_items(ss)) = 1

----------------------------------------------------------------------------
(* The same sweep with get_topmost replaced by the identity.               *)

\* The completed items of the last state-set that are rules of the first key.
CompletedStart(ss) ==
  {k \in completed_items(ss) : Last(ss)[k].rule.symbol = StartSymbol}

EarleyGeneric ==
  /\ pc = "done"
  /\ mode = "compact"
  /\ saved' = [valid |-> is_valid_parse(statesets, string),
               count |-> Cardinality(CompletedStart(statesets))]
  /\ mode' = "generic"
  /\ statesets' = Seed
  /\ i' = 0
  /\ j' = 0
  /\ pc' = "sweep"
  /\ UNCHANGED <<grammarVars, nullVars, string, item>>

CompleteGeneric ==
  /\ InSweep
  /\ mode = "generic"
  /\ IsComplete(Cur)
  /\ statesets' = Completion(statesets, i, Cur, Cur)
  /\ j' = j + 1
  /\ UNCHANGED <<grammarVars, nullVars, string, i, item, mode, saved, pc>>

----------------------------------------------------------------------------
Next ==
  \/ UpdateNss
  \/ NextPass
  \/ Constructed
  \/ EarleyCall
  \/ Complete
  \/ TopmostStep
  \/ TopmostReturn
  \/ Scan
  \/ Predict
  \/ PredictRaises
  \/ NoBranch
  \/ NextStateSet
  \/ Return

Spec == Init /\ [][Next]_vars

\* The sweep is a sequential program: it takes its next step whenever it has
\* one.
FairSpec == Spec /\ WF_vars(Next)

NextEq == Next \/ EarleyGeneric \/ CompleteGeneric

SpecEq == Init /\ [][NextEq]_vars

----------------------------------------------------------------------------
(* Derivations: the number of derivation trees of tokens[a..b) from a      *)
(* symbol, counted up to two, as the least fixpoint of the grammar's       *)
(* rules.  A symbol in both maps is read as the terminal, as               *)
(* Grammar.__getitem__ does; a symbol in neither derives nothing.          *)

Cap2(n) == IF n > 2 THEN 2 ELSE n

Spans == {p \in KeySet \X (0..Len(string)) \X (0..Len(string)) : p[2] <= p[3]}

SymCount(cnt, x, a, b) ==
  IF InTerminals(x)
  THEN IF b = a + 1 /\ string[b] \in terminals[x] THEN 1 ELSE 0
  ELSE IF InNonterminals(x) THEN cnt[<<x, a, b>>] ELSE 0

RECURSIVE SeqCount(_, _, _, _), SplitSum(_, _, _, _, _)
SeqCount(cnt, rhs, a, b) ==
  IF rhs = <<>> THEN (IF a = b THEN 1 ELSE 0)
  ELSE SplitSum(cnt, rhs, a, a, b)

SplitSum(cnt, rhs, a, m, b) ==
  IF m > b THEN 0
  ELSE LET here == SymCount(cnt, Head(rhs), a, m)
       IN  Cap2((IF here = 0 THEN 0 ELSE here * SeqCount(cnt, Tail(rhs), m, b))
                + SplitSum(cnt, rhs, a, m + 1, b))

RECURSIVE RuleSum(_, _, _, _, _)
RuleSum(cnt, rules, k, a, b) ==
  IF k > Len(rules) THEN 0
  ELSE Cap2(SeqCount(cnt, rules[k].seq, a, b) + RuleSum(cnt, rules, k + 1, a, b))

DerivStep(cnt) ==
  [p \in Spans |-> RuleSum(cnt, nonterminals.rules[p[1]], 1, p[2], p[3])]

RECURSIVE DerivFix(_)
DerivFix(cnt) ==
  LET next == DerivStep(cnt)
  IN  IF next = cnt THEN cnt ELSE DerivFix(next)

DerivCount == DerivFix([p \in Spans |-> 0])

Swept == pc \in {"sweep", "get_topmost", "done", "raised"}

----------------------------------------------------------------------------
(* Claims                                                                  *)

\* C1: is_valid_parse(G, s) is true if and only if s has exactly one
\* derivation from the first-declared nonterminal.
C1_ValidIffUniqueDerivation ==
  (pc = "done" /\ mode = "compact") =>
     (is_valid_parse(statesets, string)
        <=> DerivCount[<<StartSymbol, 0, Len(string)>>] = 1)

\* C2: the chart built with get_topmost gives the same is_valid_parse result
\* and the same number of completed start-symbol items with origin 0 in the
\* last state-set as the chart built with get_topmost replaced by the
\* identity.
C2_CompactionIsPure ==
  (pc = "done" /\ mode = "generic") =>
     /\ saved.valid = is_valid_parse(statesets, string)
     /\ saved.count = Cardinality(CompletedStart(statesets))

\* C3: earley terminates for every grammar and token sequence: the sweep
\* reaches its return (or raises) and every get_topmost walk ends.
C3_Terminates == <>(pc \in {"done", "raised"})

\* C4: is_valid_parse succeeds if and only if the chart has len(tokens)+1
\* state-sets and the last one holds exactly one completed item of origin 0
\* whose rule belongs to the start symbol; completed origin-0 items of other
\* nonterminals do not count.
C4_QueryCountsStartItemsOnly ==
  (pc = "done" /\ mode = "compact") =>
     (is_valid_parse(statesets, string)
        <=> /\ Len(statesets) = Len(string) + 1
            /\ Cardinality(CompletedStart(statesets)) = 1)

\* Some rule of A has every right-hand-side symbol in X.
HasNullableRule(X, A) ==
  \E k \in 1..Len(nonterminals.rules[A]) :
    \A q \in 1..Len(nonterminals.rules[A][k].seq) :
      nonterminals.rules[A][k].seq[q] \in X

\* C5: the nullable set of a constructed Grammar is a fixpoint (A is in it
\* iff some rule of A has all its symbols in it), it is the least set closed
\* under the rules, and so it is the same whatever order the passes visit
\* the nonterminals in.
C5_NullableLeastFixpoint ==
  pc # "nullable" =>
     /\ \A A \in KeySet : A \in nullable <=> HasNullableRule(nullable, A)
     /\ \A X \in SUBSET KeySet :
          (\A A \in KeySet : HasNullableRule(X, A) => A \in X)
             => nullable \subseteq X

C5_Witness ==
  /\ pc = "constructed"
  /\ nonterminals = NullChain.nonterminals
  /\ nullable = {"S", "A", "B"}

IsGrammar1Run ==
  /\ pc = "done"
  /\ mode = "compact"
  /\ terminals = Grammar1.terminals
  /\ nonterminals = Grammar1.nonterminals
  /\ \A k \in 1..Len(string) : string[k] = "a"

\* C6: for A -> a A | (empty) and k >= 3 copies of a, state-sets 2..k of the
\* returned chart all have the size of state-set 2.
C6_RightRecursionPlateau ==
  (IsGrammar1Run /\ Len(string) >= 3) =>
     \A q \in 3..Len(string) : Len(statesets[q + 1]) = Len(statesets[3])

C6_Witness == IsGrammar1Run /\ Len(string) >= 4

\* The symbols of right-hand sides that are in neither map, and the symbols
\* that are in both.
RhsSymbols ==
  UNION {UNION {{nonterminals.rules[A][k].seq[q] :
                   q \in 1..Len(nonterminals.rules[A][k].seq)} :
                k \in 1..Len(nonterminals.rules[A])} :
         A \in KeySet}

UndefinedSymbols ==
  {x \in RhsSymbols : ~InTerminals(x) /\ ~InNonterminals(x)}

DuplicateSymbols == KeySet \cap DOMAIN terminals

\* C7: no Grammar object is produced when a rule uses a symbol that is in
\* neither map (UndefinedSymbol) or a symbol is in both maps
\* (DuplicateSymbol).
C7_ConstructionValidates ==
  pc # "nullable" => (UndefinedSymbols = {} /\ DuplicateSymbols = {})

\* Some item of state-set n has a terminal after its dot that accepts
\* tokens[n].
Scannable(n) ==
  \E k \in 1..Len(statesets[n + 1]) :
    LET x == statesets[n + 1][k]
    IN  /\ x.dot < Len(x.rule.seq)
        /\ x.rule.seq[x.dot + 1] \in DOMAIN terminals
        /\ string[n + 1] \in terminals[x.rule.seq[x.dot + 1]]

\* The positions at which scanning stalls.
Stalls ==
  {n \in 0..(Len(string) - 1) : n >= Len(statesets) \/ ~Scannable(n)}

ExpectedLength ==
  IF Stalls = {} THEN Len(string) + 1
  ELSE (CHOOSE n \in Stalls : \A q \in Stalls : n <= q) + 1

ChartLengthBounded ==
  Swept => (1 <= Len(statesets) /\ Len(statesets) <= Len(string) + 1)

ChartLengthFinal ==
  pc = "done" => Len(statesets) = ExpectedLength

ChartGrowsByScan ==
  (pc = "sweep" /\ Len(statesets') # Len(statesets)) =>
     /\ Len(statesets') = Len(statesets) + 1
     /\ j < Len(statesets[i + 1])
     /\ i = Len(statesets) - 1
     /\ i < Len(string)
     /\ Cur.dot < Len(Cur.rule.seq)
     /\ Cur.rule.seq[Cur.dot + 1] \in DOMAIN terminals
     /\ string[i + 1] \in terminals[Cur.rule.seq[Cur.dot + 1]]

\* C8: the chart always has between 1 and len(tokens)+1 state-sets, it grows
\* by exactly one and only when a scan at the last index succeeds, and the
\* returned chart has len(tokens)+1 state-sets iff every position scans,
\* else k+1 for the first position k at which no item scans.
C8_ChartLength ==
  /\ [](ChartLengthBounded /\ ChartLengthFinal)
  /\ [][ChartGrowsByScan]_vars

C8_Witness ==
  /\ pc = "done"
  /\ 1 < Len(statesets)
  /\ Len(statesets) < Len(string) + 1

\* C9: no state-set ever holds two structurally equal items.
C9_NoDuplicateItems ==
  Swept =>
     \A n \in 1..Len(statesets) :
       \A p, q \in 1..Len(statesets[n]) :
         p # q => statesets[n][p] # statesets[n][q]

\* Item x of state-set n is a partial match of tokens[x.start..n).
ValidItem(D, x, n) ==
  /\ 0 <= x.start
  /\ x.start <= n
  /\ 0 <= x.dot
  /\ x.dot <= Len(x.rule.seq)
  /\ SeqCount(D, SubSeq(x.rule.seq, 1, x.dot), x.start, n) > 0

\* C10: every item (rule, dot, origin) of state-set n has 0 <= origin <= n,
\* 0 <= dot <= len(rhs), and rhs[0..dot) derives tokens[origin..n).
C10_ItemsAreValid ==
  Swept =>
     LET D == DerivCount
     IN  \A n \in 1..Len(statesets) :
           \A k \in 1..Len(statesets[n]) :
             ValidItem(D, statesets[n][k], n - 1)

\* A walk of get_topmost has just put an item of an earlier origin into a
\* state-set past the first.
C10_Witness ==
  /\ pc = "sweep"
  /\ i >= 2
  /\ j >= 1
  /\ j <= Len(statesets[i + 1])
  /\ statesets[i + 1][j].dot = Len(statesets[i + 1][j].rule.seq)
  /\ Last(statesets[i + 1]).start = 0
  /\ Last(statesets[i + 1]).dot = Len(Last(statesets[i + 1]).rule.seq)
  /\ statesets[i + 1][j].start > 0

====
